---- MODULE Spec2Model ----
(***************************************************************************)
(* Model of src/src/main.rs: a one-shot command-line HTTP client.          *)
(*                                                                         *)
(* One run is: Opt::from_args, the summary printed by main, the URL check, *)
(* make_request (build, then send), and the match on its result.           *)
(*                                                                         *)
(* Texts that the program only passes through (the URL) are atomic.  The   *)
(* -d text is a sequence of characters.  JSON texts and response bodies    *)
(* are sequences of lexical tokens: a string literal, a number, one of the *)
(* punctuation marks, a whitespace character or a bare word.               *)
(* Option<T> is a sequence of length 0 (None) or 1 (Some).  What the url,  *)
(* reqwest and serde_json crates answer is chosen by the environment.      *)
(***************************************************************************)
EXTENDS Integers, Sequences, FiniteSets, TLC

VARIABLES pc, args, opt, urlres, req, sent, result, out, params

vars == <<pc, args, opt, urlres, req, sent, result, out, params>>

\* ------------------------------------------------------------------ bounds
MaxDataLen == 3

\* ------------------------------------------------------------ option type
None == <<>>
Some(x) == <<x>>
IsSome(o) == Len(o) = 1
Unwrap(o) == o[1]

\* ----------------------------------------------------------- sample inputs
UrlSamples == {"http://example.com/api", "example.com"}

MethodTokens == {"GET", "POST", "get", "PUT"}

DataAlphabet == {"a", "1", "=", "&"}

RECURSIVE StringsUpTo(_)
StringsUpTo(n) ==
    IF n = 0 THEN {<<>>}
    ELSE LET shorter == StringsUpTo(n - 1)
         IN  shorter \cup {Append(s, c) : s \in {t \in shorter : Len(t) = n - 1},
                                          c \in DataAlphabet}

DataSamples ==
    { <<"a", "=", "1", "&", "b", "=", "2">>,
      <<"a", "=", "1", "&", "b", "o", "g", "u", "s">>,
      <<"a", "=", "1", "=", "2">> }

Ws == {" ", "\n"}
Strs == {"a", "b"}
Nums == {"1", "2"}
Scalars == Strs \cup Nums

JsonArgSamples ==
    { <<"{", "b", ":", "2", ",", "a", ":", "1", "}">>,
      <<"{", "a", ":", "1">>,
      <<"1">>,
      <<"hello">> }

BodySamples ==
    { <<"{", "b", ":", "2", ",", "a", ":", "1", "}">>,
      <<" ", "{", "a", ":", "1", ",", "a", ":", "2", "}", "\n">>,
      <<"{", "}">>,
      <<"{", "a", ":", "1", ",", "}">>,
      <<"hello", " ", "world", "\n">>,
      <<"\n", "hello", "\n">>,
      <<>> }

StatusSamples == {199, 200, 204, 299, 300, 404, 500}

Schemes == {"http", "https", "ftp", "file"}

ParseErrors ==
    { "EmptyHost", "IdnaError", "InvalidPort", "InvalidIpv4Address",
      "InvalidIpv6Address", "InvalidDomainCharacter", "RelativeUrlWithoutBase",
      "RelativeUrlWithCannotBeABaseBase", "SetHostOnCannotBeABaseUrl", "Overflow" }

\* -------------------------------------------------------- Method (7 - 42)
Method_from_str_nocase(s) ==
    IF s \in {"GET", "get"} THEN Some("GET")
    ELSE IF s \in {"POST", "post"} THEN Some("POST")
    ELSE None

Method_from_str(s) ==
    IF s = "GET" THEN Some("GET")
    ELSE IF s = "POST" THEN Some("POST")
    ELSE None

Method_fmt(m) == IF m = "GET" THEN "GET" ELSE "POST"

\* --------------------------------------------------- parse_params (164-176)
\* str::split: the pieces of s between occurrences of sep, in order
RECURSIVE SplitFrom(_, _, _, _)
SplitFrom(s, sep, i, cur) ==
    IF i > Len(s) THEN <<cur>>
    ELSE IF s[i] = sep THEN <<cur>> \o SplitFrom(s, sep, i + 1, <<>>)
    ELSE SplitFrom(s, sep, i + 1, Append(cur, s[i]))

Split(s, sep) == SplitFrom(s, sep, 1, <<>>)

\* HashMap::insert: a later value replaces the earlier one of the same key
Insert(m, k, v) == {p \in m : p[1] # k} \cup {<<k, v>>}

RECURSIVE ParamsFrom(_, _, _)
ParamsFrom(pairs, i, m) ==
    IF i > Len(pairs) THEN m
    ELSE LET parts == Split(pairs[i], "=")
         IN  ParamsFrom(pairs, i + 1,
                        IF Len(parts) >= 2 THEN Insert(m, parts[1], parts[2]) ELSE m)

parse_params(data) == ParamsFrom(Split(data, "&"), 1, {})

\* ----------------------------------------- serde_json::Value (112, 135, 144)
\* A Value is a scalar or an object whose members are scalars.  The object's
\* map is keyed and ordered by the member name, one entry per name.
ScalarValue(t) == [t |-> "scalar", tok |-> t, m |-> {}]
ObjectValue(m) == [t |-> "object", tok |-> "", m |-> m]

JsonErr == [ok |-> FALSE, value |-> ScalarValue("")]
JsonOk(v) == [ok |-> TRUE, value |-> v]

StripWs(s) == SelectSeq(s, LAMBDA t : t \notin Ws)

RECURSIVE ParseMembers(_, _)
ParseMembers(s, acc) ==
    IF Len(s) < 3 THEN JsonErr
    ELSE IF s[1] \notin Strs \/ s[2] # ":" \/ s[3] \notin Scalars THEN JsonErr
    ELSE LET acc2 == Insert(acc, s[1], s[3])
         IN  IF Len(s) = 3 THEN JsonOk(ObjectValue(acc2))
             ELSE IF s[4] = "," THEN ParseMembers(SubSeq(s, 5, Len(s)), acc2)
             ELSE JsonErr

\* serde_json::from_str::<Value>
from_str(text) ==
    LET s == StripWs(text)
    IN  IF Len(s) = 1 /\ s[1] \in Scalars THEN JsonOk(ScalarValue(s[1]))
        ELSE IF Len(s) >= 2 /\ s[1] = "{" /\ s[Len(s)] = "}"
             THEN IF Len(s) = 2 THEN JsonOk(ObjectValue({}))
                  ELSE ParseMembers(SubSeq(s, 2, Len(s) - 1), {})
        ELSE JsonErr

\* byte order of the member names
KeyOrder == <<"1", "2", "a", "b">>
Rank(k) == CHOOSE i \in 1..Len(KeyOrder) : KeyOrder[i] = k

RECURSIVE SortedMembers(_)
SortedMembers(m) ==
    IF m = {} THEN <<>>
    ELSE LET least == CHOOSE p \in m : \A q \in m : Rank(p[1]) <= Rank(q[1])
         IN  <<least>> \o SortedMembers(m \ {least})

RECURSIVE PrettyMembers(_, _)
PrettyMembers(ms, i) ==
    IF i > Len(ms) THEN <<>>
    ELSE <<"  ", ms[i][1], ":", " ", ms[i][2]>>
         \o (IF i < Len(ms) THEN <<",", "\n">> ELSE <<"\n">>)
         \o PrettyMembers(ms, i + 1)

\* Display for Value with the alternate flag: println!("{:#}", json)
Pretty(v) ==
    IF v.t = "scalar" THEN <<v.tok>>
    ELSE IF v.m = {} THEN <<"{", "}">>
    ELSE <<"{", "\n">> \o PrettyMembers(SortedMembers(v.m), 1) \o <<"}">>

RECURSIVE CompactMembers(_, _)
CompactMembers(ms, i) ==
    IF i > Len(ms) THEN <<>>
    ELSE <<ms[i][1], ":", ms[i][2]>>
         \o (IF i < Len(ms) THEN <<",">> ELSE <<>>)
         \o CompactMembers(ms, i + 1)

\* RequestBuilder::json: the body is the compact serialization of the Value
Compact(v) ==
    IF v.t = "scalar" THEN <<v.tok>>
    ELSE <<"{">> \o CompactMembers(SortedMembers(v.m), 1) \o <<"}">>

\* str::trim
RECURSIVE TrimStart(_)
TrimStart(s) == IF s # <<>> /\ Head(s) \in Ws THEN TrimStart(Tail(s)) ELSE s

RECURSIVE TrimEnd(_)
TrimEnd(s) ==
    IF s # <<>> /\ s[Len(s)] \in Ws THEN TrimEnd(SubSeq(s, 1, Len(s) - 1)) ELSE s

Trim(s) == TrimEnd(TrimStart(s))

\* ------------------------------------------------------- main (59 - 130)
O == Unwrap(opt)

\* the summary printed at 62-73
SummaryLinesFlag(o) ==
    <<<<"Requesting URL: ", o.url>>, <<"Method: ", Method_fmt(o.method)>>>>
    \o (IF IsSome(o.json) THEN <<<<"JSON: ">> \o Unwrap(o.json)>>
        ELSE IF IsSome(o.data) THEN <<<<"Data: ">> \o Unwrap(o.data)>>
        ELSE <<>>)

SummaryLines(o) ==
    <<<<"Requesting URL: ", o.url>>>>
    \o (IF IsSome(o.json)
        THEN <<<<"Method: ", Method_fmt("POST")>>, <<"JSON: ">> \o Unwrap(o.json)>>
        ELSE <<<<"Method: ", Method_fmt(o.method)>>>>
             \o (IF IsSome(o.data) THEN <<<<"Data: ">> \o Unwrap(o.data)>> ELSE <<>>))

\* what Url::parse answers: Ok(url) with its scheme, or Err(e)
UrlOk(scheme) == [ok |-> TRUE, scheme |-> scheme, err |-> ""]
UrlErr(e) == [ok |-> FALSE, scheme |-> "", err |-> e]
UrlResults == {UrlOk(sch) : sch \in Schemes} \cup {UrlErr(e) : e \in ParseErrors}

\* Display for ParseError: the variant's name stands for its message
ParseError_fmt(e) == e

\* the lines printed by the match at 75-97
UrlMessageEither(res) ==
    IF res.ok
    THEN IF res.scheme # "http" \/ res.scheme # "https"
         THEN <<<<"Error: The URL does not have a valid base protocol.">>>>
         ELSE <<>>
    ELSE IF res.err \in {"RelativeUrlWithoutBase", "RelativeUrlWithCannotBeABaseBase",
                         "SetHostOnCannotBeABaseUrl"}
         THEN <<<<"Error: The URL does not have a valid base protocol.">>>>
    ELSE IF res.err = "InvalidIpv4Address"
         THEN <<<<"Error: The URL contains an invalid IPv4 address.">>>>
    ELSE IF res.err = "InvalidIpv6Address"
         THEN <<<<"Error: The URL contains an invalid IPv6 address.">>>>
    ELSE IF res.err = "InvalidPort"
         THEN <<<<"Error: The URL contains an invalid port number.">>>>
    ELSE <<<<"Error: ", ParseError_fmt(res.err)>>>>

UrlMessage(res) ==
    IF res.ok
    THEN IF res.scheme # "http" /\ res.scheme # "https"
         THEN <<<<"Error: The URL does not have a valid base protocol.">>>>
         ELSE <<>>
    ELSE IF res.err \in {"RelativeUrlWithoutBase", "RelativeUrlWithCannotBeABaseBase",
                         "SetHostOnCannotBeABaseUrl"}
         THEN <<<<"Error: The URL does not have a valid base protocol.">>>>
    ELSE IF res.err = "InvalidIpv4Address"
         THEN <<<<"Error: The URL contains an invalid IPv4 address.">>>>
    ELSE IF res.err = "InvalidIpv6Address"
         THEN <<<<"Error: The URL contains an invalid IPv6 address.">>>>
    ELSE IF res.err = "InvalidPort"
         THEN <<<<"Error: The URL contains an invalid port number.">>>>
    ELSE <<<<"Error: ", ParseError_fmt(res.err)>>>>

\* StatusCode::is_success at 101
is_success_below_400(status) == status >= 200 /\ status < 400

is_success(status) == status >= 200 /\ status < 300

\* e.is_timeout() || e.is_connect() at 124
IsConnectFailureOnly(e) == e.connect

IsConnectFailure(e) == e.timeout \/ e.connect

ConnectMessage ==
    <<"Error: Unable to connect to the server. Perhaps the network is offline or the server hostname cannot be resolved.">>

\* ------------------------------------------------ make_request (132 - 162)
Request(method, url, kind, form, json) ==
    [method |-> method, url |-> url, kind |-> kind, form |-> form, json |-> json]

NoRequest == Request("", "", "none", {}, <<>>)

Panic == [panic |-> TRUE, req |-> NoRequest]
Built(r) == [panic |-> FALSE, req |-> r]

\* the request make_request hands to send(), or the panic it ends in
BuildOutcomeMethodFirst(o) ==
    IF o.method = "GET" THEN Built(Request("GET", o.url, "none", {}, <<>>))
    ELSE IF IsSome(o.json)
    THEN LET parsed == from_str(Unwrap(o.json))
         IN  IF ~parsed.ok THEN Panic
             ELSE Built(Request("POST", o.url, "json", {}, Compact(parsed.value)))
    ELSE IF o.data = None THEN Panic
    ELSE Built(Request("POST", o.url, "form", parse_params(Unwrap(o.data)), <<>>))

BuildOutcome(o) ==
    IF IsSome(o.json)
    THEN LET parsed == from_str(Unwrap(o.json))
         IN  IF ~parsed.ok THEN Panic
             ELSE Built(Request("POST", o.url, "json", {}, Compact(parsed.value)))
    ELSE IF o.method = "GET" THEN Built(Request("GET", o.url, "none", {}, <<>>))
    ELSE IF o.data = None THEN Panic
    ELSE Built(Request("POST", o.url, "form", parse_params(Unwrap(o.data)), <<>>))

\* what send() answers: Ok(resp) with a status and a body that resp.text()
\* reads or fails to read, or Err(e)
Response(status, body) ==
    [ok |-> TRUE, status |-> status, body |-> body, timeout |-> FALSE, connect |-> FALSE]
TransportError(timeout, connect) ==
    [ok |-> FALSE, status |-> 0, body |-> None, timeout |-> timeout, connect |-> connect]

SendResults ==
    {Response(st, b) : st \in StatusSamples, b \in {None} \cup {Some(t) : t \in BodySamples}}
    \cup {TransportError(t, c) : t \in BOOLEAN, c \in BOOLEAN}

\* ---------------------------------------------------------------- the run
ArgSets ==
    [url : {None} \cup {Some(u) : u \in UrlSamples},
     data : {None} \cup {Some(d) : d \in DataSamples},
     method : {None} \cup {Some(t) : t \in MethodTokens},
     json : {None} \cup {Some(j) : j \in JsonArgSamples}]

Init ==
    /\ pc = "start"
    /\ args \in ArgSets
    /\ opt = None
    /\ urlres = None
    /\ req = None
    /\ sent = <<>>
    /\ result = None
    /\ out = <<>>
    /\ params = None

\* Opt::from_args at 60: -X defaults to GET, the URL is required
ParseArgs ==
    /\ pc = "start"
    /\ LET token == IF IsSome(args.method) THEN Unwrap(args.method) ELSE "GET"
           method == Method_from_str(token)
       IN  IF args.url = None \/ method = None
           THEN /\ pc' = "exited"
                /\ opt' = opt
           ELSE /\ pc' = "main"
                /\ opt' = Some([url |-> Unwrap(args.url), data |-> args.data,
                                method |-> Unwrap(method), json |-> args.json])
    /\ UNCHANGED <<args, urlres, req, sent, result, out, params>>

\* 62-73
Summary ==
    /\ pc = "main"
    /\ out' = out \o SummaryLines(O)
    /\ pc' = "validate"
    /\ UNCHANGED <<args, opt, urlres, req, sent, result, params>>

\* 75-97
ValidateUrlReturn ==
    /\ pc = "validate"
    /\ \E res \in UrlResults :
        /\ urlres' = Some(res)
        /\ out' = out \o UrlMessage(res)
        /\ pc' = IF UrlMessage(res) # <<>> THEN "done" ELSE "make_request"
    /\ UNCHANGED <<args, opt, req, sent, result, params>>

ValidateUrl ==
    /\ pc = "validate"
    /\ \E res \in UrlResults :
        /\ urlres' = Some(res)
        /\ out' = out \o UrlMessage(res)
    /\ pc' = "make_request"
    /\ UNCHANGED <<args, opt, req, sent, result, params>>

\* make_request up to the call of send(): 134-142, 150-157
BuildRequest ==
    /\ pc = "make_request"
    /\ LET built == BuildOutcome(O)
       IN  IF built.panic
           THEN /\ pc' = "panicked"
                /\ UNCHANGED <<req, params>>
           ELSE /\ pc' = "send"
                /\ req' = Some(built.req)
                /\ params' = IF built.req.kind = "form" THEN Some(built.req.form)
                             ELSE params
    /\ UNCHANGED <<args, opt, urlres, sent, result, out>>

\* send() at 144, 151, 157
SendRequest ==
    /\ pc = "send"
    /\ sent' = Append(sent, Unwrap(req))
    /\ \E r \in SendResults : result' = Some(r)
    /\ pc' = "response"
    /\ UNCHANGED <<args, opt, urlres, req, out, params>>

\* the match on make_request's result: 99-129
HandleResponse ==
    /\ pc = "response"
    /\ LET r == Unwrap(result)
       IN  IF r.ok
           THEN IF ~is_success(r.status)
                THEN /\ out' = Append(out, <<"Error: Request failed with status code: ",
                                             ToString(r.status), ".">>)
                     /\ pc' = "done"
                ELSE IF r.body = None
                THEN /\ out' = out
                     /\ pc' = "panicked"
                ELSE LET body == Unwrap(r.body)
                         json == from_str(body)
                     IN  /\ out' = IF json.ok
                                   THEN out \o <<<<"Response body (JSON with sorted keys):">>,
                                                  Pretty(json.value)>>
                                   ELSE out \o <<<<"Response body:">>, Trim(body)>>
                         /\ pc' = "done"
           ELSE /\ out' = IF IsConnectFailure(r) THEN Append(out, ConnectMessage) ELSE out
                /\ pc' = "done"
    /\ UNCHANGED <<args, opt, urlres, req, sent, result, params>>

Next ==
    \/ ParseArgs
    \/ Summary
    \/ ValidateUrl
    \/ BuildRequest
    \/ SendRequest
    \/ HandleResponse

Spec == Init /\ [][Next]_vars

\* ------------------------------------------- parse_params on every short text
InitParams ==
    /\ pc = "params"
    /\ \E d \in StringsUpTo(MaxDataLen) :
        args = [url |-> None, data |-> Some(d), method |-> None, json |-> None]
    /\ opt = None
    /\ urlres = None
    /\ req = None
    /\ sent = <<>>
    /\ result = None
    /\ out = <<>>
    /\ params = None

ParamsStep ==
    /\ pc = "params"
    /\ params' = Some(parse_params(Unwrap(args.data)))
    /\ pc' = "params_done"
    /\ UNCHANGED <<args, opt, urlres, req, sent, result, out>>

NextParams == ParamsStep

SpecParams == InitParams /\ [][NextParams]_vars

\* ================================================================ claims
Token == IF IsSome(args.method) THEN Unwrap(args.method) ELSE "GET"

PastParsing == pc \in {"main", "validate", "make_request", "send", "response",
                       "done", "panicked"}

IsJsonPost(r) ==
    /\ r.method = "POST"
    /\ r.kind = "json"
    /\ r.form = {}
    /\ r.url = Unwrap(args.url)
    /\ from_str(r.json) = from_str(Unwrap(args.json))

\* C1: whenever --json is given, whatever -X and -d are, the request that is
\* built and sent is a POST whose body is the JSON value of the argument, no
\* form data goes into it, and the method line of the summary reads POST.
C1_JsonForcesPost ==
    (PastParsing /\ IsSome(args.json)) =>
        /\ Len(out) >= 2 => out[2] = <<"Method: ", "POST">>
        /\ IsSome(req) => IsJsonPost(Unwrap(req))
        /\ \A i \in DOMAIN sent : IsJsonPost(sent[i])

C1_Witness ==
    /\ pc = "response"
    /\ IsSome(args.json)
    /\ args.method = Some("GET")
    /\ IsSome(args.data)
    /\ Len(sent) = 1
    /\ sent[1].method = "POST"

UsageError ==
    \/ Token \notin {"GET", "POST"}
    \/ args.json = None /\ Token = "POST" /\ args.data = None
    \/ IsSome(args.json) /\ ~from_str(Unwrap(args.json)).ok

\* C2: in a run with a usage error (a -X token other than GET and POST, -X
\* POST without -d and without --json, a --json text that is not JSON) no
\* request is ever built or sent, and the run never completes normally.
C2_UsageErrorSendsNothing ==
    (UsageError /\ pc \notin {"params", "params_done"}) =>
        /\ sent = <<>>
        /\ req = None
        /\ result = None
        /\ pc \in {"start", "exited", "main", "validate", "make_request", "panicked"}

C2_Witness ==
    /\ pc = "panicked"
    /\ args.json = None
    /\ args.method = Some("POST")
    /\ args.data = None
    /\ sent = <<>>

C3_FirstEq(pair) ==
    IF \E i \in 1..Len(pair) : pair[i] = "="
    THEN CHOOSE i \in 1..Len(pair) : pair[i] = "=" /\ \A j \in 1..(i - 1) : pair[j] # "="
    ELSE 0

RECURSIVE C3_Expected(_, _, _)
C3_Expected(pairs, i, m) ==
    IF i > Len(pairs) THEN m
    ELSE LET pair == pairs[i]
             eq == C3_FirstEq(pair)
         IN  C3_Expected(pairs, i + 1,
                         IF eq = 0 THEN m
                         ELSE Insert(m, SubSeq(pair, 1, eq - 1),
                                     SubSeq(pair, eq + 1, Len(pair))))

\* C3: parse_params gives the mapping got by splitting the text on '&' and
\* each pair on its first '=' only: the key is the text before the first '=',
\* the value all the text after it; a pair without '=' is skipped.
C3_SplitsOnFirstEq ==
    pc = "params_done" =>
        Unwrap(params) = C3_Expected(Split(Unwrap(args.data), "&"), 1, {})

\* C4: the only run that ends in a panic is one whose --json text is not JSON.
C4_OnlyBadJsonPanics ==
    pc = "panicked" => (IsSome(args.json) /\ ~from_str(Unwrap(args.json)).ok)

IsHttpError ==
    /\ pc = "response"
    /\ Unwrap(result).ok
    /\ ~(Unwrap(result).status \in 200..299)

\* C5 as stated: a response whose status is not 2xx prints exactly
\* "Request failed with status code: {code}." and the run stops there.
C5_BareStatusMessage ==
    [][IsHttpError =>
        /\ out' = Append(out, <<"Request failed with status code: ",
                                ToString(Unwrap(result).status), ".">>)
        /\ pc' = "done"]_vars

\* C5 amended: a response whose status is not 2xx prints exactly the line
\* "Error: Request failed with status code: {code}." and the run stops there,
\* with no body header and no body printed.
C5_ErrorStatusMessage ==
    [][IsHttpError =>
        /\ out' = Append(out, <<"Error: Request failed with status code: ",
                                ToString(Unwrap(result).status), ".">>)
        /\ pc' = "done"]_vars

C5_Witness ==
    /\ pc = "done"
    /\ IsSome(result)
    /\ Unwrap(result).ok
    /\ Unwrap(result).status = 404
    /\ out[Len(out)] = <<"Error: Request failed with status code: ", "404", ".">>

\* C6: when the run is over after a 2xx response, the last two lines printed
\* are a body header and the body: pretty-printed with sorted keys when the
\* body is JSON, the trimmed raw text when it is not.
C6_SuccessPrintsBody ==
    (/\ pc \in {"done", "panicked"}
     /\ IsSome(result)
     /\ Unwrap(result).ok
     /\ Unwrap(result).status \in 200..299) =>
        LET n == Len(out)
            body == Unwrap(result).body
        IN  /\ n >= 2
            /\ out[n - 1] \in {<<"Response body (JSON with sorted keys):">>,
                               <<"Response body:">>}
            /\ IsSome(body) =>
                 LET json == from_str(Unwrap(body))
                 IN  IF json.ok
                     THEN /\ out[n - 1] = <<"Response body (JSON with sorted keys):">>
                          /\ out[n] = Pretty(json.value)
                     ELSE /\ out[n - 1] = <<"Response body:">>
                          /\ out[n] = Trim(Unwrap(body))

\* C7: the step that checks the URL always hands over to make_request with
\* the options untouched and nothing sent yet, whatever it printed; and every
\* request handed to send() carries the URL string given on the command line.
C7_ValidationNeverStops ==
    [][/\ pc = "validate" =>
            /\ pc' = "make_request"
            /\ opt' = opt
            /\ sent' = <<>>
            /\ Len(out') >= Len(out)
            /\ SubSeq(out', 1, Len(out)) = out
       /\ sent' # sent =>
            /\ sent'[Len(sent')].url = Unwrap(args.url)
            /\ Unwrap(opt).url = Unwrap(args.url)]_vars

C7_Witness ==
    /\ pc = "response"
    /\ IsSome(urlres)
    /\ Unwrap(urlres).ok
    /\ Unwrap(urlres).scheme = "ftp"
    /\ Len(sent) = 1
    /\ sent[1].url = Unwrap(args.url)
    /\ \E i \in DOMAIN out : out[i] = <<"Error: The URL does not have a valid base protocol.">>

SummaryLen == IF IsSome(args.json) \/ IsSome(args.data) THEN 3 ELSE 2

\* C8: nothing is printed, checked or sent before the summary; once it is
\* printed it is the first lines of the output in every later state of the
\* run: the URL line, the effective-method line, then the JSON line when
\* --json is given or else the data line when -d is given; and at the moment
\* the URL is about to be checked the summary is all there is.
C8_SummaryFirst ==
    /\ pc \in {"start", "exited", "main"} =>
          out = <<>> /\ sent = <<>> /\ urlres = None
    /\ pc \in {"validate", "make_request", "send", "response", "done", "panicked"} =>
          /\ Len(out) >= SummaryLen
          /\ out[1] = <<"Requesting URL: ", Unwrap(args.url)>>
          /\ out[2] = <<"Method: ", IF IsSome(args.json) THEN "POST" ELSE Token>>
          /\ IsSome(args.json) => out[3] = <<"JSON: ">> \o Unwrap(args.json)
          /\ (args.json = None /\ IsSome(args.data)) =>
                out[3] = <<"Data: ">> \o Unwrap(args.data)
    /\ pc = "validate" =>
          Len(out) = SummaryLen /\ urlres = None /\ sent = <<>>

C8_Witness ==
    /\ pc = "panicked"
    /\ IsSome(args.json)
    /\ IsSome(args.data)
    /\ args.method = Some("GET")
    /\ Unwrap(urlres) = UrlErr("InvalidPort")
    /\ Len(out) = 4
    /\ out[2] = <<"Method: ", "POST">>

IsTransportFailure == pc = "response" /\ ~Unwrap(result).ok

\* C9: when send() ends in a transport failure, a connection failure or a
\* timeout adds exactly the unable-to-connect line to the output, any other
\* failure adds nothing, and in both cases the run ends normally.
C9_TransportFailure ==
    [][IsTransportFailure =>
        /\ pc' = "done"
        /\ out' = IF Unwrap(result).connect \/ Unwrap(result).timeout
                  THEN Append(out, <<"Error: Unable to connect to the server. Perhaps the network is offline or the server hostname cannot be resolved.">>)
                  ELSE out]_vars

C9_Witness ==
    /\ pc = "done"
    /\ IsSome(result)
    /\ ~Unwrap(result).ok
    /\ Unwrap(result).timeout
    /\ ~Unwrap(result).connect
    /\ out[Len(out)] = ConnectMessage

RelativeErrors ==
    {"RelativeUrlWithoutBase", "RelativeUrlWithCannotBeABaseBase",
     "SetHostOnCannotBeABaseUrl"}

\* C10 as stated: the URL check prints nothing for http and https, the bare
\* sentence "The URL does not have a valid base protocol." for another scheme
\* or a relative URL, the bare sentences for a bad IPv4 address, IPv6 address
\* and port, and only for the other parse errors "Error: " and the parser's
\* message; it never ends the run.
C10_BareMessages ==
    [][pc = "validate" =>
        LET res == Unwrap(urlres')
        IN  /\ pc' = "make_request"
            /\ out' = out \o
                 (IF res.ok /\ res.scheme \in {"http", "https"} THEN <<>>
                  ELSE IF res.ok \/ res.err \in RelativeErrors
                       THEN <<<<"The URL does not have a valid base protocol.">>>>
                  ELSE IF res.err = "InvalidIpv4Address"
                       THEN <<<<"The URL contains an invalid IPv4 address.">>>>
                  ELSE IF res.err = "InvalidIpv6Address"
                       THEN <<<<"The URL contains an invalid IPv6 address.">>>>
                  ELSE IF res.err = "InvalidPort"
                       THEN <<<<"The URL contains an invalid port number.">>>>
                  ELSE <<<<"Error: ", res.err>>>>)]_vars

\* C10 amended: the URL check never ends the run and prints at most one line,
\* every one of them starting with "Error: ": nothing for http and https;
\* "Error: The URL does not have a valid base protocol." for another scheme or
\* a relative URL; "Error: The URL contains an invalid IPv4 address.", "...
\* IPv6 address." and "... port number." for those parse errors; "Error: " and
\* the parser's message for the others.
C10_ErrorMessages ==
    [][pc = "validate" =>
        LET res == Unwrap(urlres')
        IN  /\ pc' = "make_request"
            /\ out' = out \o
                 (IF res.ok /\ res.scheme \in {"http", "https"} THEN <<>>
                  ELSE IF res.ok \/ res.err \in RelativeErrors
                       THEN <<<<"Error: The URL does not have a valid base protocol.">>>>
                  ELSE IF res.err = "InvalidIpv4Address"
                       THEN <<<<"Error: The URL contains an invalid IPv4 address.">>>>
                  ELSE IF res.err = "InvalidIpv6Address"
                       THEN <<<<"Error: The URL contains an invalid IPv6 address.">>>>
                  ELSE IF res.err = "InvalidPort"
                       THEN <<<<"Error: The URL contains an invalid port number.">>>>
                  ELSE <<<<"Error: ", res.err>>>>)]_vars

C10_Witness ==
    /\ pc = "make_request"
    /\ Unwrap(urlres) = UrlErr("InvalidIpv6Address")
    /\ out[Len(out)] = <<"Error: The URL contains an invalid IPv6 address.">>

====
